---- MODULE Spec2Model ----
(***************************************************************************)
(* Model of cgt_calc/parsers/freetrade.py: the Freetrade CSV parser of the *)
(* capital-gains calculator.  A file is a sequence of csv rows, the first  *)
(* being the header; every cell of a row is a string.  Cells that the code *)
(* parses are modelled by their characters or components, so that parsing  *)
(* is computed rather than assumed:                                        *)
(*   - a numeric cell is the sequence of its characters, <<"-","6">>;      *)
(*   - a Timestamp cell is the record of its parts (date fields, whether   *)
(*     fractional seconds are written, the zone suffix);                   *)
(*   - every other cell is a plain string.                                 *)
(* The reader is a state machine over one call of                          *)
(* read_freetrade_transactions: open and read the file, validate the       *)
(* header, build one transaction per row of the reversed list, return.     *)
(* A Python exception is modelled as a result record with ok = FALSE that  *)
(* carries the exception class and message (a tuple of strings); results   *)
(* are threaded in the order in which the code evaluates its statements.   *)
(***************************************************************************)
EXTENDS Integers, Sequences, FiniteSets, TLC

\* ------------------------------------------------------------------ bounds

\* Largest number of data rows of a multi-row input file.
MaxRows == 3

\* Significant digits of the decimal context.  Python's default context has
\* prec = 28; the model keeps the same rounding rule with fewer digits.
DecimalPrec == 4

\* ------------------------------------------------- optional values, results

None == <<>>
Some(x) == <<x>>

Ok(v) == [ok |-> TRUE, val |-> v]
Raise(kind, message) == [ok |-> FALSE, err |-> kind, msg |-> message]

\* The first failing result of a sequence of results evaluated in order.
RECURSIVE FirstError(_)
FirstError(rs) ==
  IF rs = <<>> THEN Ok(None)
  ELSE IF ~Head(rs).ok THEN Head(rs) ELSE FirstError(Tail(rs))

\* ---------------------------------------------------------------- Decimal
\* A Decimal is [c, e], the number c * 10^e, kept in the canonical form of
\* its value (no trailing zero in c, zero is [0, 0]), so that Decimal's
\* value equality (Decimal("-0") == 0, Decimal("3.0") == 3) is equality.

RECURSIVE Pow10(_)
Pow10(n) == IF n <= 0 THEN 1 ELSE 10 * Pow10(n - 1)

Abs(n) == IF n < 0 THEN -n ELSE n

RECURSIVE NumDigits(_)
NumDigits(n) == IF n < 10 THEN 1 ELSE 1 + NumDigits(n \div 10)

RECURSIVE DecNorm(_, _)
DecNorm(c, e) ==
  IF c = 0 THEN [c |-> 0, e |-> 0]
  ELSE IF c % 10 = 0 THEN DecNorm(c \div 10, e + 1)
  ELSE [c |-> c, e |-> e]

\* Round the non-negative coefficient q (with `sticky` telling that digits
\* beyond q were non-zero) to DecimalPrec digits, ROUND_HALF_EVEN.
DecRound(sign, q, sticky, e) ==
  LET drop == NumDigits(q) - DecimalPrec IN
  IF drop <= 0 THEN DecNorm(sign * q, e)
  ELSE LET p    == Pow10(drop)
           hi   == q \div p
           lo   == q % p
           half == p \div 2
           up   == \/ lo > half
                   \/ lo = half /\ sticky
                   \/ lo = half /\ ~sticky /\ hi % 2 = 1
       IN DecNorm(sign * (IF up THEN hi + 1 ELSE hi), e + drop)

DecZero == [c |-> 0, e |-> 0]

DecFromInt(n) == DecNorm(n, 0)

DecIsZero(d) == d.c = 0

DecSign(d) == IF d.c < 0 THEN -1 ELSE 1

\* Decimal.__mul__
DecMul(a, b) ==
  DecRound(DecSign(a) * DecSign(b), Abs(a.c) * Abs(b.c), FALSE, a.e + b.e)

\* Smallest k >= 0 with n * 10^k >= bound.
RECURSIVE ScaleFor(_, _, _)
ScaleFor(n, bound, k) ==
  IF n * Pow10(k) >= bound THEN k ELSE ScaleFor(n, bound, k + 1)

\* Decimal.__truediv__ under the default traps: x/0 raises DivisionByZero,
\* 0/0 raises InvalidOperation; otherwise the quotient rounded to the
\* context precision.
DecDiv(a, b) ==
  IF DecIsZero(b)
  THEN IF DecIsZero(a) THEN Raise("InvalidOperation", <<"DivisionUndefined">>)
       ELSE Raise("DivisionByZero", <<"Division by zero">>)
  ELSE IF DecIsZero(a) THEN Ok(DecZero)
  ELSE LET n == Abs(a.c)
           d == Abs(b.c)
           k == ScaleFor(n, d * Pow10(DecimalPrec), 0)
           q == (n * Pow10(k)) \div d
           r == (n * Pow10(k)) % d
       IN Ok(DecRound(DecSign(a) * DecSign(b), q, r # 0, a.e - b.e - k))

\* Decimal(str): [sign] digits ["." digits], at least one digit in all;
\* anything else raises InvalidOperation.  Construction is exact (the
\* context precision applies to arithmetic only).
Digits == <<"0", "1", "2", "3", "4", "5", "6", "7", "8", "9">>

IsDigit(ch) == \E i \in 1..10 : Digits[i] = ch

DigitVal(ch) == (CHOOSE i \in 1..10 : Digits[i] = ch) - 1

RECURSIVE DigitsVal(_, _)
DigitsVal(s, acc) ==
  IF s = <<>> THEN acc ELSE DigitsVal(Tail(s), 10 * acc + DigitVal(Head(s)))

DotAt(s) == IF \E i \in 1..Len(s) : s[i] = "."
            THEN CHOOSE i \in 1..Len(s) : s[i] = "." /\ \A j \in 1..(i - 1) : s[j] # "."
            ELSE 0

Decimal(s) ==
  LET signed == s # <<>> /\ Head(s) \in {"-", "+"}
      sign   == IF signed /\ Head(s) = "-" THEN -1 ELSE 1
      body   == IF signed THEN Tail(s) ELSE s
      dot    == DotAt(body)
      int    == IF dot = 0 THEN body ELSE SubSeq(body, 1, dot - 1)
      frac   == IF dot = 0 THEN <<>> ELSE SubSeq(body, dot + 1, Len(body))
      all    == int \o frac
  IN IF all # <<>> /\ \A i \in 1..Len(all) : IsDigit(all[i])
     THEN Ok(DecNorm(sign * DigitsVal(all, 0), -Len(frac)))
     ELSE Raise("InvalidOperation", <<"ConversionSyntax">>)

\* ------------------------------------------------------------- the schema

COLUMNS ==
  << "Title", "Type", "Timestamp", "Account Currency", "Total Amount",
     "Buy / Sell", "Ticker", "ISIN", "Price per Share in Account Currency",
     "Stamp Duty", "Quantity", "Venue", "Order ID", "Order Type",
     "Instrument Currency", "Total Shares Amount", "Price per Share",
     "FX Rate", "Base FX Rate", "FX Fee (BPS)", "FX Fee Amount",
     "Dividend Ex Date", "Dividend Pay Date", "Dividend Eligible Quantity",
     "Dividend Amount Per Share", "Dividend Gross Distribution Amount",
     "Dividend Net Distribution Amount", "Dividend Withheld Tax Percentage",
     "Dividend Withheld Tax Amount" >>

InColumns(name) == \E i \in 1..Len(COLUMNS) : COLUMNS[i] = name

\* dict(zip(header, row_raw)): pairs up to the shorter length, a later
\* duplicate of a column name overriding an earlier one.
Min(a, b) == IF a < b THEN a ELSE b

RowDict(header, row_raw) ==
  LET n    == Min(Len(header), Len(row_raw))
      keys == {header[i] : i \in 1..n}
      last(k) == CHOOSE i \in 1..n :
                   header[i] = k /\ \A j \in (i + 1)..n : header[j] # k
  IN [k \in keys |-> row_raw[last(k)]]

\* row[key]: KeyError when the row has no such column.
Field(row, key) ==
  IF key \in DOMAIN row THEN Ok(row[key]) ELSE Raise("KeyError", <<key>>)

\* Decimal(row[key])
DecimalField(row, key) ==
  IF key \in DOMAIN row THEN Decimal(row[key]) ELSE Raise("KeyError", <<key>>)

\* ------------------------------------------------------ action_from_str

action_from_str(type, buy_sell) ==
  IF type = "INTEREST_FROM_CASH" THEN Ok("INTEREST")
  ELSE IF type = "DIVIDEND" THEN Ok("DIVIDEND")
  ELSE IF type \in {"TOP_UP", "WITHDRAWAL"} THEN Ok("TRANSFER")
  ELSE IF type \in {"ORDER", "FREESHARE_ORDER"}
       THEN IF buy_sell = "BUY" THEN Ok("BUY")
            ELSE IF buy_sell = "SELL" THEN Ok("SELL")
            ELSE Raise("ParsingError", <<"Unknown buy_sell", buy_sell>>)
  ELSE Raise("ParsingError", <<"Unknown type", type>>)

\* ------------------------------------------------------ validate_header

\* Mutant of validate_header: the last unknown column is reported.
validate_header_last(header) ==
  LET unknown == {n \in 1..Len(header) : ~InColumns(header[n])}
  IN IF unknown = {} THEN Ok(None)
     ELSE Raise("ParsingError",
                <<"Unknown column", header[CHOOSE n \in unknown : \A m \in unknown : m <= n]>>)

RECURSIVE validate_header(_)
validate_header(header) ==
  IF header = <<>> THEN Ok(None)
  ELSE IF ~InColumns(Head(header))
       THEN Raise("ParsingError", <<"Unknown column", Head(header)>>)
       ELSE validate_header(Tail(header))

\* ------------------------------------------------------------ parse_date
\* A Timestamp cell is [y, m, d, frac, zone]: the date fields as written,
\* whether ".<fraction>" follows the seconds, and the zone suffix ("Z",
\* "+00:00" or "" when there is none).  A cell without a time part at all
\* has frac = FALSE and zone = "".

DaysInMonth(y, m) ==
  IF m \in {4, 6, 9, 11} THEN 30
  ELSE IF m = 2
       THEN IF y % 4 = 0 /\ (y % 100 # 0 \/ y % 400 = 0) THEN 29 ELSE 28
  ELSE 31

parse_date(iso_date) ==
  LET zone == IF iso_date.zone = "Z" THEN "+00:00" ELSE iso_date.zone
      matches == /\ iso_date.frac
                 /\ zone # ""
                 /\ iso_date.m \in 1..12
                 /\ iso_date.d \in 1..DaysInMonth(iso_date.y, iso_date.m)
  IN IF matches
     THEN Ok([y |-> iso_date.y, m |-> iso_date.m, d |-> iso_date.d])
     ELSE Raise("ValueError", <<"time data does not match format">>)

\* Mutant of DateAfter: the split date itself counts.
DateOnOrAfter(a, b) ==
  \/ a.y > b.y
  \/ a.y = b.y /\ a.m > b.m
  \/ a.y = b.y /\ a.m = b.m /\ a.d >= b.d

\* date.__gt__
DateAfter(a, b) ==
  \/ a.y > b.y
  \/ a.y = b.y /\ a.m > b.m
  \/ a.y = b.y /\ a.m = b.m /\ a.d > b.d

\* ------------------------------------------- FreetradeTransaction.__init__

\* The numbers of one transaction, all in GBP.
Amounts(quantity, price, amount) ==
  [quantity |-> quantity, price |-> price, amount |-> amount, currency |-> "GBP"]

\* price /= fx_rate; amount /= fx_rate
TradeDivided(quantity, price, amount) ==
  IF ~price.ok THEN price
  ELSE IF ~amount.ok THEN amount
  ELSE Ok(Amounts(Some(quantity), Some(price.val), amount.val))

\* Mutant of TradeConverted: the amount is left in the instrument currency.
TradeConvertedPriceOnly(quantity, price, amount, fx_rate) ==
  IF ~fx_rate.ok THEN fx_rate
  ELSE TradeDivided(quantity, DecDiv(price, fx_rate.val), Ok(amount))

\* fx_rate = Decimal(row["FX Rate"])
TradeConverted(quantity, price, amount, fx_rate) ==
  IF ~fx_rate.ok THEN fx_rate
  ELSE TradeDivided(quantity, DecDiv(price, fx_rate.val), DecDiv(amount, fx_rate.val))

TradeRead(row, quantity, price, amount, currency) ==
  IF ~FirstError(<<quantity, price, amount, currency>>).ok
  THEN FirstError(<<quantity, price, amount, currency>>)
  ELSE IF currency.val # "GBP"
  THEN TradeConverted(quantity.val, price.val, amount.val, DecimalField(row, "FX Rate"))
  ELSE Ok(Amounts(Some(quantity.val), Some(price.val), amount.val))

\* The branch for SELL and BUY.
TradeNumbers(row) ==
  TradeRead(row,
            DecimalField(row, "Quantity"),
            DecimalField(row, "Price per Share"),
            DecimalField(row, "Total Shares Amount"),
            Field(row, "Instrument Currency"))

\* amount /= Decimal(row["Base FX Rate"])
DividendConverted(amount, base_fx_rate) ==
  IF ~base_fx_rate.ok THEN base_fx_rate
  ELSE IF ~DecDiv(amount, base_fx_rate.val).ok THEN DecDiv(amount, base_fx_rate.val)
  ELSE Ok(Amounts(None, None, DecDiv(amount, base_fx_rate.val).val))

DividendRead(row, amount, currency) ==
  IF ~amount.ok THEN amount
  ELSE IF ~currency.ok THEN currency
  ELSE IF currency.val # "GBP"
  THEN DividendConverted(amount.val, DecimalField(row, "Base FX Rate"))
  ELSE Ok(Amounts(None, None, amount.val))

\* The branch for DIVIDEND.
DividendNumbers(row) ==
  DividendRead(row,
               DecimalField(row, "Dividend Gross Distribution Amount"),
               Field(row, "Instrument Currency"))

CashRead(amount) ==
  IF ~amount.ok THEN amount ELSE Ok(Amounts(None, None, amount.val))

\* The branch for TRANSFER and INTEREST.
CashNumbers(row) == CashRead(DecimalField(row, "Total Amount"))

\* The branches on the action that read quantity, price and amount and
\* convert them to GBP with Freetrade's rates.
Numbers(row, action) ==
  IF action \in {"SELL", "BUY"} THEN TradeNumbers(row)
  ELSE IF action = "DIVIDEND" THEN DividendNumbers(row)
  ELSE IF action \in {"TRANSFER", "INTEREST"} THEN CashNumbers(row)
  ELSE Raise("ParsingError", <<"Numbers parsing unimplemented for action", action>>)

\* Mutant of FreeShare: only the price is zeroed.
FreeSharePriceOnly(type, nums) ==
  IF type = "FREESHARE_ORDER" THEN [nums EXCEPT !.price = Some(DecZero)] ELSE nums

\* Free shares have no cash cost.
FreeShare(type, nums) ==
  IF type = "FREESHARE_ORDER"
  THEN [nums EXCEPT !.price = Some(DecZero), !.amount = DecZero]
  ELSE nums

\* Mutant of SignedAmount: a withdrawal is not negated.
SignedAmountBuyOnly(type, action, amount) ==
  IF action = "BUY" THEN DecMul(amount, DecFromInt(-1)) ELSE amount

\* Mutant of SignedAmount: an outflow gets -abs(amount).
SignedAmountAbs(type, action, amount) ==
  IF action = "BUY" \/ type = "WITHDRAWAL"
  THEN [c |-> -Abs(amount.c), e |-> amount.e]
  ELSE amount

\* amount_negative and the negation of the amount.
SignedAmount(type, action, amount) ==
  IF action = "BUY" \/ type = "WITHDRAWAL"
  THEN DecMul(amount, DecFromInt(-1))
  ELSE amount

\* symbol = row["Ticker"] if row["Ticker"] != "" else None
SymbolOf(ticker) == IF ticker # "" THEN Some(ticker) ELSE None

\* row["Timestamp"] parsed by parse_date.
DateField(stamp) == IF ~stamp.ok THEN stamp ELSE parse_date(stamp.val)

\* super().__init__(...): the keyword arguments are evaluated in order.
BrokerTransaction(type, action, symbol, nums, date, title) ==
  IF ~date.ok THEN date
  ELSE IF ~title.ok THEN title
  ELSE Ok([date        |-> date.val,
           action      |-> action,
           symbol      |-> symbol,
           description |-> <<title.val, action>>,
           quantity    |-> nums.quantity,
           price       |-> nums.price,
           fees        |-> DecZero,
           amount      |-> SignedAmount(type, action, nums.amount),
           currency    |-> nums.currency,
           broker      |-> "Freetrade"])

WithNumbers(row, type, action, symbol, nums) ==
  IF ~nums.ok THEN nums
  ELSE BrokerTransaction(type, action, symbol, FreeShare(type, nums.val),
                         DateField(Field(row, "Timestamp")), Field(row, "Title"))

\* Mutant of WithAccount: the currency is checked after the numbers are read.
WithAccountLate(row, type, action, symbol, account) ==
  IF ~account.ok THEN account
  ELSE IF ~Numbers(row, action).ok THEN Numbers(row, action)
  ELSE IF account.val # "GBP"
  THEN Raise("ParsingError", <<"Non-GBP accounts are unsupported">>)
  ELSE WithNumbers(row, type, action, symbol, Numbers(row, action))

\* The account currency check.
WithAccount(row, type, action, symbol, account) ==
  IF ~account.ok THEN account
  ELSE IF account.val # "GBP"
  THEN Raise("ParsingError", <<"Non-GBP accounts are unsupported">>)
  ELSE WithNumbers(row, type, action, symbol, Numbers(row, action))

\* The symbol and the check that the action has one.
WithTicker(row, type, action, ticker) ==
  IF ~ticker.ok THEN ticker
  ELSE IF SymbolOf(ticker.val) = None /\ action \notin {"TRANSFER", "INTEREST"}
  THEN Raise("ParsingError", <<"No symbol for action", action>>)
  ELSE WithAccount(row, type, action, SymbolOf(ticker.val), Field(row, "Account Currency"))

WithAction(row, type, action) ==
  IF ~action.ok THEN action
  ELSE WithTicker(row, type, action.val, Field(row, "Ticker"))

\* action = action_from_str(row["Type"], row["Buy / Sell"], filename)
Classified(row, type, buy_sell) ==
  IF ~type.ok THEN type
  ELSE IF ~buy_sell.ok THEN buy_sell
  ELSE WithAction(row, type.val, action_from_str(type.val, buy_sell.val))

FreetradeTransactionOfRow(row) ==
  Classified(row, Field(row, "Type"), Field(row, "Buy / Sell"))

FreetradeTransaction(header, row_raw) ==
  FreetradeTransactionOfRow(RowDict(header, row_raw))

\* --------------------------------------------------- _handle_stock_split

STOCK_SPLIT_INFO ==
  << [symbol |-> "GOOGL", date |-> [y |-> 2022, m |-> 7, d |-> 18], factor |-> 20],
     [symbol |-> "TSLA",  date |-> [y |-> 2022, m |-> 8, d |-> 25], factor |-> 3],
     [symbol |-> "NDAQ",  date |-> [y |-> 2022, m |-> 8, d |-> 29], factor |-> 3] >>

\* Truthiness of an Optional[Decimal]: None and zero are false.
Truthy(opt) == opt # None /\ ~DecIsZero(opt[1])

SplitApplies(transaction, split) ==
  /\ transaction.symbol = Some(split.symbol)
  /\ transaction.action = "SELL"
  /\ DateAfter(transaction.date, split.date)

\* One iteration of the loop over STOCK_SPLIT_INFO.
ApplySplit(transaction, split) ==
  IF SplitApplies(transaction, split)
  THEN LET q == IF Truthy(transaction.quantity)
                THEN Some(DecDiv(transaction.quantity[1], DecFromInt(split.factor)).val)
                ELSE transaction.quantity
           p == IF Truthy(transaction.price)
                THEN Some(DecMul(transaction.price[1], DecFromInt(split.factor)))
                ELSE transaction.price
       IN [transaction EXCEPT !.quantity = q, !.price = p]
  ELSE transaction

RECURSIVE SplitLoop(_, _)
SplitLoop(transaction, splits) ==
  IF splits = <<>> THEN transaction
  ELSE SplitLoop(ApplySplit(transaction, Head(splits)), Tail(splits))

_handle_stock_split(transaction) == SplitLoop(transaction, STOCK_SPLIT_INFO)

\* ------------------------------------------------------------ input files

NumericColumns ==
  {"Total Amount", "Quantity", "Total Shares Amount", "Price per Share",
   "FX Rate", "Base FX Rate", "Dividend Gross Distribution Amount"}

Stamp(y, m, d) == [y |-> y, m |-> m, d |-> d, frac |-> TRUE, zone |-> "Z"]

\* "2022-08-26T10:00:00Z": no fractional seconds.
StampNoFraction == [y |-> 2022, m |-> 8, d |-> 26, frac |-> FALSE, zone |-> "Z"]
\* "2022-08-26T10:00:00.000": no zone.
StampNoZone == [y |-> 2022, m |-> 8, d |-> 26, frac |-> TRUE, zone |-> ""]
\* "2022-13-26T10:00:00.000Z": no such month.
StampBadMonth == [y |-> 2022, m |-> 13, d |-> 26, frac |-> TRUE, zone |-> "Z"]

\* Dates on and around the dates of the split table.
GoodStamps ==
  { Stamp(2022, 7, 18), Stamp(2022, 8, 25), Stamp(2022, 8, 26), Stamp(2022, 8, 29),
    Stamp(2023, 1, 2) }

BadStamps == {StampNoFraction, StampNoZone, StampBadMonth}

\* The cell of column `name` in a row given by the function f from column
\* names to cells; a column f does not name is empty.
Cell(f, name) ==
  IF name \in DOMAIN f THEN f[name]
  ELSE IF name \in NumericColumns THEN <<>>
  ELSE IF name = "Timestamp" THEN Stamp(2022, 8, 26)
  ELSE ""

\* A csv row with one cell per column of the export, in the export's order.
Row(f) == [i \in 1..Len(COLUMNS) |-> Cell(f, COLUMNS[i])]

\* A blank line, which csv.reader yields as an empty row.
BlankRow == <<>>

TradeRow(type, buy_sell, ticker, account, quantity, price, amount, currency, fx, stamp) ==
  Row("Title" :> "trade" @@ "Type" :> type @@ "Buy / Sell" :> buy_sell
      @@ "Ticker" :> ticker @@ "Account Currency" :> account
      @@ "Quantity" :> quantity @@ "Price per Share" :> price
      @@ "Total Shares Amount" :> amount @@ "Instrument Currency" :> currency
      @@ "FX Rate" :> fx @@ "Timestamp" :> stamp)

CashRow(type, buy_sell, ticker, account, quantity, price, total, stamp) ==
  Row("Title" :> "cash" @@ "Type" :> type @@ "Buy / Sell" :> buy_sell
      @@ "Ticker" :> ticker @@ "Account Currency" :> account
      @@ "Quantity" :> quantity @@ "Price per Share" :> price
      @@ "Total Amount" :> total @@ "Timestamp" :> stamp)

DividendRow(ticker, account, gross, currency, base_fx, stamp) ==
  Row("Title" :> "dividend" @@ "Type" :> "DIVIDEND" @@ "Ticker" :> ticker
      @@ "Account Currency" :> account
      @@ "Dividend Gross Distribution Amount" :> gross
      @@ "Instrument Currency" :> currency @@ "Base FX Rate" :> base_fx
      @@ "Timestamp" :> stamp)

\* Well-formed and ill-formed numeric cells.
NotANumber == <<"a", "b", "c">>

\* Rows of buy and sell orders with well-formed numbers.
TradeRows ==
  { TradeRow(type, buy_sell, ticker, "GBP", quantity, price, amount, currency, fx, stamp) :
      type \in {"ORDER", "FREESHARE_ORDER"}, buy_sell \in {"BUY", "SELL"},
      ticker \in {"TSLA", "GOOGL", "NDAQ", "AAPL"},
      quantity \in {<<"9">>, <<"0">>}, price \in {<<"1", "0">>, <<"0">>},
      amount \in {<<"9", "0">>, <<"-", "6">>}, currency \in {"GBP", "USD"},
      fx \in {<<"3">>, <<"1", ".", "2", "5">>},
      stamp \in GoodStamps \cup {StampNoFraction} }

\* Rows of orders that fail one way or another.
BadTradeRows ==
  { TradeRow(type, buy_sell, ticker, account, quantity, <<"1", "0">>, <<"9", "0">>,
             currency, fx, stamp) :
      type \in {"ORDER", "FREESHARE_ORDER"}, buy_sell \in {"BUY", "SELL", ""},
      ticker \in {"", "TSLA"}, account \in {"GBP", "USD"},
      quantity \in {<<"9">>, NotANumber}, currency \in {"GBP", "USD"},
      fx \in {<<"3">>, <<"0">>, <<>>},
      stamp \in {Stamp(2022, 8, 26), StampBadMonth} }

\* Rows of cash movements (top-up, withdrawal, interest).
CashRows ==
  { CashRow(type, buy_sell, ticker, account, quantity, price, total, stamp) :
      type \in {"TOP_UP", "WITHDRAWAL", "INTEREST_FROM_CASH"},
      buy_sell \in {"", "BUY"}, ticker \in {"", "TSLA"},
      account \in {"GBP", "USD"},
      quantity \in {<<>>, <<"9">>, NotANumber},
      price \in {<<>>, <<"1", "0">>, NotANumber},
      total \in {<<"5", "0">>, <<"-", "6">>, <<"0">>, NotANumber},
      stamp \in {Stamp(2022, 8, 26), StampNoZone} }

DividendRows ==
  { DividendRow(ticker, account, gross, currency, base_fx, stamp) :
      ticker \in {"", "AAPL"}, account \in {"GBP", "USD"},
      gross \in {<<"7">>, NotANumber}, currency \in {"GBP", "USD"},
      base_fx \in {<<"2">>, <<"0">>, <<>>},
      stamp \in {Stamp(2022, 8, 26), StampNoFraction} }

\* Rows of a type the classifier does not know.
OtherRows ==
  { CashRow(type, "", "", account, <<>>, <<>>, <<"5", "0">>, Stamp(2022, 8, 26)) :
      type \in {"MONTHLY_STATEMENT", ""}, account \in {"GBP", "USD"} }

\* The rows of the multi-row files: one of each kind of outcome.
SampleRows ==
  { TradeRow("ORDER", "BUY", "AAPL", "GBP", <<"9">>, <<"1", "0">>, <<"9", "0">>,
             "USD", <<"3">>, Stamp(2022, 8, 25)),
    TradeRow("ORDER", "SELL", "TSLA", "GBP", <<"9">>, <<"1", "0">>, <<"9", "0">>,
             "GBP", <<>>, Stamp(2022, 8, 26)),
    CashRow("WITHDRAWAL", "", "", "GBP", <<>>, <<>>, <<"5", "0">>, Stamp(2022, 7, 18)),
    DividendRow("AAPL", "GBP", <<"7">>, "USD", <<"2">>, Stamp(2023, 1, 2)),
    TradeRow("ORDER", "SELL", "TSLA", "USD", NotANumber, NotANumber, NotANumber,
             "USD", <<"0">>, StampNoFraction),
    CashRow("TOP_UP", "", "", "USD", <<>>, <<>>, NotANumber, StampBadMonth),
    CashRow("TOP_UP", "", "", "GBP", <<>>, <<>>, <<"5", "0">>, StampNoFraction),
    CashRow("MONTHLY_STATEMENT", "", "", "GBP", <<>>, <<>>, <<>>, Stamp(2022, 8, 26)),
    BlankRow }

\* Headers: the export's own, one without the trailing dividend columns,
\* and ones with columns the allow-list does not have.
ValidHeaders == {COLUMNS, SubSeq(COLUMNS, 1, 21), <<>>}

InvalidHeaders ==
  { <<"Bogus">> \o COLUMNS,
    COLUMNS \o <<"Bogus">>,
    SubSeq(COLUMNS, 1, 3) \o <<"Extra", "Bogus">> \o SubSeq(COLUMNS, 4, Len(COLUMNS)),
    <<"Title", "Bogus", "Extra", "Bogus">> }

RECURSIVE SeqsUpTo(_, _)
SeqsUpTo(S, n) ==
  IF n = 0 THEN {<<>>}
  ELSE LET shorter == SeqsUpTo(S, n - 1)
       IN shorter \cup {Append(q, x) : q \in {r \in shorter : Len(r) = n - 1}, x \in S}

SingleRowFiles ==
  { [exists |-> TRUE, lines |-> <<COLUMNS, row>>] :
      row \in TradeRows \cup BadTradeRows \cup CashRows \cup DividendRows \cup OtherRows }

MultiRowFiles ==
  { [exists |-> TRUE, lines |-> <<header>> \o rows] :
      header \in ValidHeaders \cup InvalidHeaders, rows \in SeqsUpTo(SampleRows, MaxRows) }

\* A file that is not there, and an existing file with no line at all.
MissingFile == [exists |-> FALSE, lines |-> <<>>]
EmptyFile == [exists |-> TRUE, lines |-> <<>>]

Files == SingleRowFiles \cup MultiRowFiles \cup {MissingFile, EmptyFile}

\* ------------------------------------------- read_freetrade_transactions

VARIABLES
  file,          \* the input: whether the path exists, and its csv rows
  pc,            \* "open", "validate", "rows", "done"
  header,        \* lines[0]
  lines,         \* the local `lines`
  next,          \* position of the comprehension in `lines`
  built,         \* the transactions as constructed, before the split pass
  transactions,  \* the transactions after _handle_stock_split
  attempts,      \* number of FreetradeTransaction constructor calls so far
  warnings,      \* the warnings printed
  outcome        \* how the call ended: returned a list, or raised

vars == <<file, pc, header, lines, next, built, transactions, attempts, warnings, outcome>>

Running == [kind |-> "running", value |-> <<>>, err |-> "", msg |-> <<>>]
Returned(v) == [kind |-> "returned", value |-> v, err |-> "", msg |-> <<>>]
Raised(r) == [kind |-> "raised", value |-> <<>>, err |-> r.err, msg |-> r.msg]

\* Mutant of Reverse: the rows stay in file order.
Unreversed(s) == s

RECURSIVE Reverse(_)
Reverse(s) == IF s = <<>> THEN <<>> ELSE Append(Reverse(Tail(s)), Head(s))

Init ==
  /\ file \in Files
  /\ pc = "open"
  /\ header = <<>>
  /\ lines = <<>>
  /\ next = 1
  /\ built = <<>>
  /\ transactions = <<>>
  /\ attempts = 0
  /\ warnings = <<>>
  /\ outcome = Running

\* Path(...).open() raises FileNotFoundError, which the function catches:
\* it prints a warning and returns [].
OpenMissing ==
  /\ pc = "open"
  /\ ~file.exists
  /\ warnings' = Append(warnings, "Couldn't locate Freetrade transactions file")
  /\ outcome' = Returned(<<>>)
  /\ pc' = "done"
  /\ UNCHANGED <<file, header, lines, next, built, transactions, attempts>>

\* lines = list(csv.reader(file)); header = lines[0]
ReadLines ==
  /\ pc = "open"
  /\ file.exists
  /\ lines' = file.lines
  /\ IF file.lines = <<>>
     THEN /\ outcome' = Raised(Raise("IndexError", <<"list index out of range">>))
          /\ pc' = "done"
          /\ UNCHANGED header
     ELSE /\ header' = file.lines[1]
          /\ pc' = "validate"
          /\ UNCHANGED outcome
  /\ UNCHANGED <<file, next, built, transactions, attempts, warnings>>

\* validate_header(header, ...); lines = lines[1:]; lines.reverse()
ValidateHeader ==
  /\ pc = "validate"
  /\ LET checked == validate_header(header)
     IN IF ~checked.ok
        THEN /\ outcome' = Raised(checked)
             /\ pc' = "done"
             /\ UNCHANGED lines
        ELSE /\ lines' = Reverse(Tail(lines))
             /\ pc' = "rows"
             /\ UNCHANGED outcome
  /\ UNCHANGED <<file, header, next, built, transactions, attempts, warnings>>

\* Mutant of BuildRow: a row that fails is skipped.
BuildRowSkipping ==
  /\ pc = "rows"
  /\ next <= Len(lines)
  /\ attempts' = attempts + 1
  /\ next' = next + 1
  /\ LET made == FreetradeTransaction(header, lines[next])
     IN IF ~made.ok
        THEN UNCHANGED <<built, transactions>>
        ELSE /\ built' = Append(built, made.val)
             /\ transactions' = Append(transactions, _handle_stock_split(made.val))
  /\ UNCHANGED <<file, header, lines, warnings, pc, outcome>>

\* One element of the comprehension:
\* _handle_stock_split(FreetradeTransaction(header, row, ...))
BuildRow ==
  /\ pc = "rows"
  /\ next <= Len(lines)
  /\ attempts' = attempts + 1
  /\ LET made == FreetradeTransaction(header, lines[next])
     IN IF ~made.ok
        THEN /\ outcome' = Raised(made)
             /\ pc' = "done"
             /\ UNCHANGED <<next, built, transactions>>
        ELSE /\ built' = Append(built, made.val)
             /\ transactions' = Append(transactions, _handle_stock_split(made.val))
             /\ next' = next + 1
             /\ UNCHANGED <<pc, outcome>>
  /\ UNCHANGED <<file, header, lines, warnings>>

\* The comprehension is exhausted: warn when it is empty, return the list.
ReturnTransactions ==
  /\ pc = "rows"
  /\ next > Len(lines)
  /\ warnings' = IF Len(transactions) = 0
                 THEN Append(warnings, "no transactions detected in file")
                 ELSE warnings
  /\ outcome' = Returned(transactions)
  /\ pc' = "done"
  /\ UNCHANGED <<file, header, lines, next, built, transactions, attempts>>

Next ==
  \/ OpenMissing
  \/ ReadLines
  \/ ValidateHeader
  \/ BuildRow
  \/ ReturnTransactions

Spec == Init /\ [][Next]_vars

\* ----------------------------------------------------- properties: helpers

Done == pc = "done"
ReturnedList == Done /\ outcome.kind = "returned"

\* The data rows of the input file, in file order, and its header.
FileHeader == file.lines[1]
NumRows == Len(file.lines) - 1
DataRow(j) == RowDict(FileHeader, file.lines[j + 1])

\* The data row that the i-th transaction of the result comes from when the
\* result is in reverse of the input order.
SourceRow(i) == DataRow(NumRows + 1 - i)

\* The Decimal a numeric cell denotes, and the negation of a Decimal.
Number(cell) == Decimal(cell).val
Neg(d) == [c |-> -d.c, e |-> d.e]
Quotient(a, b) == DecDiv(a, b).val

\* A date as a number that orders dates.
DayNumber(date) == date.y * 10000 + date.m * 100 + date.d

\* The split-table entries that apply to a SELL of `symbol` on `date`.
SplitsFor(action, symbol, date) ==
  { n \in 1..Len(STOCK_SPLIT_INFO) :
      /\ action = "SELL"
      /\ symbol = Some(STOCK_SPLIT_INFO[n].symbol)
      /\ DayNumber(date) > DayNumber(STOCK_SPLIT_INFO[n].date) }

\* Every transaction built so far, with the row it is read from.
Built == 1..Len(transactions)

\* The input file exists, has a header line, and the header is valid.
ValidFile ==
  /\ file.exists
  /\ file.lines # <<>>
  /\ \A n \in 1..Len(FileHeader) : InColumns(FileHeader[n])

\* --------------------------------------------------------------------- C1

\* The j-th data row with a well-formed Timestamp in place of its own.
WithGoodStamp(j) ==
  [file.lines[j + 1] EXCEPT ![3] = Stamp(2022, 8, 26)]

\* Data row j is valid but for its Timestamp, which is malformed.
OnlyStampMalformed(j) ==
  /\ Len(file.lines[j + 1]) = Len(COLUMNS)
  /\ file.lines[j + 1][3] \in BadStamps
  /\ FreetradeTransaction(FileHeader, WithGoodStamp(j)).ok

\* C1: when an existing file with a valid header has a data row whose
\* Timestamp is malformed (the rows otherwise valid), the call fails with a
\* ParsingError.
C1_MalformedTimestampIsParsingError ==
  ( /\ Done
    /\ ValidFile
    /\ FileHeader = COLUMNS
    /\ \E j \in 1..NumRows : OnlyStampMalformed(j)
    /\ \A j \in 1..NumRows :
         OnlyStampMalformed(j) \/ FreetradeTransaction(FileHeader, file.lines[j + 1]).ok )
  => (outcome.kind = "raised" /\ outcome.err = "ParsingError")

\* --------------------------------------------------------------------- C2

CashTypes == {"TOP_UP", "WITHDRAWAL", "INTEREST_FROM_CASH"}

\* quantity and price unset, amount the raw Total Amount, negated only for
\* a WITHDRAWAL.
CashAmounts(i) ==
  /\ transactions[i].quantity = None
  /\ transactions[i].price = None
  /\ transactions[i].amount =
       IF SourceRow(i)["Type"] = "WITHDRAWAL"
       THEN Neg(Number(SourceRow(i)["Total Amount"]))
       ELSE Number(SourceRow(i)["Total Amount"])

\* C2 as claimed: for every row whose Type is TOP_UP, WITHDRAWAL or
\* INTEREST_FROM_CASH, whatever Ticker, Quantity and Price hold, the
\* transaction has no symbol, no quantity, no price, and the raw Total
\* Amount as amount (negated only for a WITHDRAWAL).
C2_CashRowHasNoSymbol ==
  \A i \in Built :
    SourceRow(i)["Type"] \in CashTypes
    => (transactions[i].symbol = None /\ CashAmounts(i))

\* C2 as amended: the same, but the symbol is the Ticker cell when that is
\* not empty, and absent only when it is empty.
C2_CashRowAmounts ==
  \A i \in Built :
    SourceRow(i)["Type"] \in CashTypes
    => /\ transactions[i].action =
            (IF SourceRow(i)["Type"] = "INTEREST_FROM_CASH" THEN "INTEREST" ELSE "TRANSFER")
       /\ transactions[i].symbol =
            (IF SourceRow(i)["Ticker"] = "" THEN None ELSE Some(SourceRow(i)["Ticker"]))
       /\ CashAmounts(i)

\* A withdrawal row with a ticker, a quantity and a price has been read.
C2_Witness ==
  /\ ReturnedList
  /\ \E i \in Built :
       /\ SourceRow(i)["Type"] = "WITHDRAWAL"
       /\ SourceRow(i)["Ticker"] = "TSLA"
       /\ SourceRow(i)["Quantity"] = <<"9">>
       /\ SourceRow(i)["Price per Share"] = <<"1", "0">>
       /\ SourceRow(i)["Total Amount"] = <<"5", "0">>

\* --------------------------------------------------------------------- C3

\* The row is a cash outflow: an ORDER that buys, or a WITHDRAWAL.
IsOutflow(row) ==
  \/ row["Type"] = "ORDER" /\ row["Buy / Sell"] = "BUY"
  \/ row["Type"] = "WITHDRAWAL"

\* The amount the row states, in GBP: Total Amount for a withdrawal, Total
\* Shares Amount (divided by FX Rate unless the instrument is in GBP) for an
\* order.
StatedAmount(row) ==
  IF row["Type"] = "WITHDRAWAL" THEN Number(row["Total Amount"])
  ELSE IF row["Instrument Currency"] # "GBP"
       THEN Quotient(Number(row["Total Shares Amount"]), Number(row["FX Rate"]))
       ELSE Number(row["Total Shares Amount"])

\* C3 as claimed: the amount of every cash outflow (ORDER with BUY, or
\* WITHDRAWAL) is <= 0, whatever the input amount.
C3_OutflowAmountNotPositive ==
  \A i \in Built : IsOutflow(SourceRow(i)) => transactions[i].amount.c <= 0

\* C3 as amended: the amount of every cash outflow is the negation of the
\* amount the row states, so it is <= 0 exactly when the stated amount is
\* >= 0.
C3_OutflowAmountNegated ==
  \A i \in Built :
    IsOutflow(SourceRow(i))
    => /\ transactions[i].amount = Neg(StatedAmount(SourceRow(i)))
       /\ transactions[i].amount.c <= 0 <=> StatedAmount(SourceRow(i)).c >= 0

\* A buy order in a foreign currency and with a positive amount is read.
C3_Witness ==
  /\ ReturnedList
  /\ \E i \in Built :
       /\ SourceRow(i)["Type"] = "ORDER"
       /\ SourceRow(i)["Buy / Sell"] = "BUY"
       /\ SourceRow(i)["Instrument Currency"] = "USD"
       /\ SourceRow(i)["Total Shares Amount"] = <<"9", "0">>
       /\ SourceRow(i)["FX Rate"] = <<"3">>
       /\ transactions[i].amount = DecFromInt(-30)

\* --------------------------------------------------------------------- C4

IsTrade(row) ==
  /\ row["Type"] \in {"ORDER", "FREESHARE_ORDER"}
  /\ row["Buy / Sell"] \in {"BUY", "SELL"}

ConvertedPrice(row) == Quotient(Number(row["Price per Share"]), Number(row["FX Rate"]))
ConvertedAmount(row) == Quotient(Number(row["Total Shares Amount"]), Number(row["FX Rate"]))

\* C4 as claimed: for every BUY or SELL row whose Instrument Currency is
\* not GBP, price = Price per Share / FX Rate and amount = Total Shares
\* Amount / FX Rate.
C4_ForeignTradeDivided ==
  \A i \in Built :
    (IsTrade(SourceRow(i)) /\ SourceRow(i)["Instrument Currency"] # "GBP")
    => /\ transactions[i].price = Some(ConvertedPrice(SourceRow(i)))
       /\ transactions[i].amount = ConvertedAmount(SourceRow(i))

\* The factor by which the split pass multiplies the price of transaction i.
PriceFactor(i) ==
  LET hit == SplitsFor(transactions[i].action, transactions[i].symbol, transactions[i].date)
  IN IF hit = {} THEN 1 ELSE STOCK_SPLIT_INFO[CHOOSE n \in hit : TRUE].factor

\* C4 as amended: for such a row of Type ORDER, amount = Total Shares
\* Amount / FX Rate for a SELL and its negation for a BUY, and price =
\* Price per Share / FX Rate, times the split factor for a SELL that the
\* split table matches; for a row of Type FREESHARE_ORDER both are 0.
C4_ForeignTradeConverted ==
  \A i \in Built :
    (IsTrade(SourceRow(i)) /\ SourceRow(i)["Instrument Currency"] # "GBP")
    => IF SourceRow(i)["Type"] = "FREESHARE_ORDER"
       THEN transactions[i].price = Some(DecZero) /\ transactions[i].amount = DecZero
       ELSE /\ transactions[i].price =
                 Some(DecMul(ConvertedPrice(SourceRow(i)), DecFromInt(PriceFactor(i))))
            /\ transactions[i].amount =
                 (IF SourceRow(i)["Buy / Sell"] = "BUY"
                  THEN Neg(ConvertedAmount(SourceRow(i)))
                  ELSE ConvertedAmount(SourceRow(i)))

\* A sell order in a foreign currency that no split touches is read: price
\* 10 and amount 90 at rate 3.
C4_Witness ==
  /\ ReturnedList
  /\ \E i \in Built :
       /\ SourceRow(i)["Type"] = "ORDER"
       /\ SourceRow(i)["Buy / Sell"] = "SELL"
       /\ SourceRow(i)["Ticker"] = "AAPL"
       /\ SourceRow(i)["Instrument Currency"] = "USD"
       /\ SourceRow(i)["Price per Share"] = <<"1", "0">>
       /\ SourceRow(i)["Total Shares Amount"] = <<"9", "0">>
       /\ SourceRow(i)["FX Rate"] = <<"3">>
       /\ transactions[i].amount = DecFromInt(30)
       /\ transactions[i].price # Some(DecFromInt(10))

\* --------------------------------------------------------------------- C5

\* C5: every transaction read from a FREESHARE_ORDER row has price 0 and
\* amount 0, whatever the row's price and amount, after the sign negation
\* and the split pass too.
C5_FreeShareIsFree ==
  \A i \in Built :
    SourceRow(i)["Type"] = "FREESHARE_ORDER"
    => /\ transactions[i].price = Some(DecZero)
       /\ transactions[i].amount = DecZero

\* A free share of a split stock, sold after the split, in a foreign
\* currency and with a price and an amount in the row, is read.
C5_Witness ==
  /\ ReturnedList
  /\ \E i \in Built :
       /\ SourceRow(i)["Type"] = "FREESHARE_ORDER"
       /\ SourceRow(i)["Buy / Sell"] = "SELL"
       /\ SourceRow(i)["Ticker"] = "TSLA"
       /\ SourceRow(i)["Instrument Currency"] = "USD"
       /\ SourceRow(i)["Price per Share"] = <<"1", "0">>
       /\ SourceRow(i)["Total Shares Amount"] = <<"9", "0">>
       /\ transactions[i].date = [y |-> 2022, m |-> 8, d |-> 26]
       /\ transactions[i].quantity = Some(DecFromInt(3))

\* --------------------------------------------------------------------- C6

\* What the claim says the adjuster returns for transaction b.
Adjusted(b) ==
  LET hit == SplitsFor(b.action, b.symbol, b.date)
      f   == DecFromInt(STOCK_SPLIT_INFO[CHOOSE n \in hit : TRUE].factor)
  IN IF hit = {} THEN b
     ELSE [b EXCEPT !.quantity = Some(Quotient(b.quantity[1], f)),
                    !.price = Some(DecMul(b.price[1], f))]

TeslaSaleAfterSplit(b) ==
  /\ b.symbol = Some("TSLA")
  /\ b.action = "SELL"
  /\ DayNumber(b.date) > 20220825
  /\ b.quantity = Some(DecFromInt(9))
  /\ b.price = Some(DecFromInt(10))

\* C6: the split pass divides the quantity by the factor and multiplies the
\* price by it when the transaction is a SELL of a symbol of the split
\* table dated strictly after that entry's date (a TSLA SELL after
\* 2022-08-25 of quantity 9 at price 10 becomes quantity 3 at price 30),
\* and returns every other transaction unchanged.
C6_SplitAdjustsSalesAfterSplit ==
  \A i \in Built :
    /\ transactions[i] = Adjusted(built[i])
    /\ transactions[i] # built[i]
         => SplitsFor(built[i].action, built[i].symbol, built[i].date) # {}
    /\ TeslaSaleAfterSplit(built[i])
         => /\ transactions[i].quantity = Some(DecFromInt(3))
            /\ transactions[i].price = Some(DecFromInt(30))

\* The TSLA sale of the example has gone through the split pass.
C6_Witness ==
  /\ ReturnedList
  /\ \E i \in Built :
       /\ TeslaSaleAfterSplit(built[i])
       /\ transactions[i].quantity = Some(DecFromInt(3))
       /\ transactions[i].price = Some(DecFromInt(30))

\* --------------------------------------------------------------------- C7

AllRowsParse ==
  \A j \in 1..NumRows : FreetradeTransaction(FileHeader, file.lines[j + 1]).ok

\* C7: reading a file with a valid header and N data rows that each parse
\* returns exactly N transactions, the i-th built from data row N + 1 - i,
\* for every N >= 0.
C7_ResultIsReversedRows ==
  (Done /\ ValidFile /\ AllRowsParse)
  => /\ outcome.kind = "returned"
     /\ Len(outcome.value) = NumRows
     /\ \A i \in 1..NumRows :
          outcome.value[i] =
            _handle_stock_split(
              FreetradeTransaction(FileHeader, file.lines[(NumRows + 1 - i) + 1]).val)

\* A file of as many rows as the bound allows, the first and the last of
\* them different, has been read.
C7_Witness ==
  /\ ReturnedList
  /\ ValidFile
  /\ NumRows = MaxRows
  /\ file.lines[2] # file.lines[NumRows + 1]
  /\ Len(outcome.value) = NumRows

\* --------------------------------------------------------------------- C8

UnknownColumns == {n \in 1..Len(FileHeader) : ~InColumns(FileHeader[n])}

FirstUnknownColumn ==
  FileHeader[CHOOSE n \in UnknownColumns : \A m \in UnknownColumns : n <= m]

\* C8: when the header has a column outside COLUMNS, the call fails with a
\* ParsingError naming the first such column in header order, and no data
\* row is ever classified and no transaction constructed, whatever the rows.
C8_UnknownColumnFailsFirst ==
  (file.exists /\ file.lines # <<>> /\ UnknownColumns # {})
  => /\ attempts = 0
     /\ built = <<>>
     /\ transactions = <<>>
     /\ outcome.kind # "returned"
     /\ Done => /\ outcome.kind = "raised"
                /\ outcome.err = "ParsingError"
                /\ outcome.msg = <<"Unknown column", FirstUnknownColumn>>

\* A file whose header has two different unknown columns, and that has data
\* rows, has failed on the first of them.
C8_Witness ==
  /\ Done
  /\ file.exists
  /\ NumRows >= 1
  /\ Cardinality({FileHeader[n] : n \in UnknownColumns}) = 2
  /\ outcome.kind = "raised"
  /\ outcome.msg = <<"Unknown column", "Extra">>

\* --------------------------------------------------------------------- C9

\* Something fails on the existing file: it has no header line, the header
\* is not valid, or a row does not parse.
FailsOnExistingFile ==
  /\ file.exists
  /\ \/ file.lines = <<>>
     \/ ~ValidFile
     \/ ~AllRowsParse

\* C9: a missing file gives a warning and the empty list, no exception; it
\* is the only failure recovered: every failure on an existing file is
\* raised to the caller, and no list is returned.
C9_OnlyMissingFileRecovered ==
  Done
  => /\ ~file.exists
          => /\ outcome = Returned(<<>>)
             /\ warnings = <<"Couldn't locate Freetrade transactions file">>
     /\ FailsOnExistingFile => outcome.kind = "raised"
     /\ (file.exists /\ outcome.kind = "returned") => ~FailsOnExistingFile

\* The call on a missing file has returned.
C9_Witness ==
  /\ Done
  /\ ~file.exists
  /\ outcome.kind = "returned"
  /\ warnings # <<>>

\* -------------------------------------------------------------------- C10

\* Data row j passes the action classification and has an Account Currency
\* other than GBP.
ForeignAccountRow(j) ==
  /\ {"Type", "Buy / Sell", "Ticker", "Account Currency"} \subseteq DOMAIN DataRow(j)
  /\ action_from_str(DataRow(j)["Type"], DataRow(j)["Buy / Sell"]).ok
  /\ DataRow(j)["Account Currency"] # "GBP"

\* C10: when a data row of an existing file with a valid header has an
\* Account Currency other than GBP, all other rows being valid, the call
\* fails with a ParsingError and returns nothing, wherever the row is and
\* whatever its other fields hold (a non-numeric amount, a malformed
\* timestamp).
C10_ForeignAccountFails ==
  ( /\ Done
    /\ ValidFile
    /\ \E j \in 1..NumRows : ForeignAccountRow(j)
    /\ \A j \in 1..NumRows :
         ForeignAccountRow(j) \/ FreetradeTransaction(FileHeader, file.lines[j + 1]).ok )
  => /\ outcome.kind = "raised"
     /\ outcome.err = "ParsingError"
     /\ outcome.value = <<>>

\* The first row of a file is a foreign-account row with non-numeric
\* numbers and a malformed timestamp; the rows after it were built before
\* the call failed.
C10_Witness ==
  /\ Done
  /\ ValidFile
  /\ NumRows = MaxRows
  /\ ForeignAccountRow(1)
  /\ DataRow(1)["Quantity"] = NotANumber
  /\ DataRow(1)["Timestamp"] \in BadStamps
  /\ Len(built) = NumRows - 1
  /\ outcome.kind = "raised"

====
